---- MODULE Spec2Model ----
(***************************************************************************)
(* Form validation and save rules of remo/profiles/forms.py, and the       *)
(* permission gate of the featured-article edit view exercised by          *)
(* remo/featuredrep/tests/test_views.py.                                   *)
(*                                                                         *)
(* The user store is the relational store behind django's User model.      *)
(* Every action is one form operation run to completion (the application   *)
(* handles a request synchronously), and records what it did in `last`.    *)
(***************************************************************************)
EXTENDS Integers, Sequences, FiniteSets, TLC

VARIABLES
    users,      \* the User table: pk -> row (email, username, names, groups)
    changed,    \* pks whose row was saved through ChangeUserForm (history)
    profiles,   \* the UserProfile table: user pk -> row
    featured,   \* the FeaturedRep table: pk -> revision of the article
    today,      \* the day now().date() returns, as a day number
    last        \* the operation that ran last, its input and its outcome

vars == <<users, changed, profiles, featured, today, last>>

----------------------------------------------------------------------------
(* Bounds of the model *)

NumUsers == 2
NumEmails == 3
MaxNameLen == 3
MaxHandleLen == 3
MaxDay == 2
NumArticles == 2

UserIds == 1..NumUsers

\* Python's None where a pk or a day is expected; pks and days start at 1.
None == 0

\* Day numbers of the model's calendar.
Days == 1..MaxDay
Emails == 1..NumEmails

----------------------------------------------------------------------------
(* Characters and strings: a string is a sequence of one-character strings *)

UpperCase == {"A","B","C","D","E","F","G","H","I","J","K","L","M",
              "N","O","P","Q","R","S","T","U","V","W","X","Y","Z"}
LowerCase == {"a","b","c","d","e","f","g","h","i","j","k","l","m",
              "n","o","p","q","r","s","t","u","v","w","x","y","z"}

\* The character class [A-Za-z\' ] of the pattern in _clean_names.
NameClass == UpperCase \cup LowerCase \cup {"'", " "}

\* re.match(r'(^[A-Za-z\' ]+$)', data): ^ anchors at the start, the class is
\* taken one or more times, and $ matches at the end of the string or just
\* before a line break that ends the string.
ReMatchNames(data) ==
    \E k \in 1..Len(data) :
        /\ \A i \in 1..k : data[i] \in NameClass
        /\ \/ k = Len(data)
           \/ k = Len(data) - 1 /\ data[Len(data)] = "\n"

\* ChangeUserForm._clean_names: TRUE when ValidationError is raised.
clean_names_raises(data) == ~ReMatchNames(data)

\* All strings over an alphabet, up to a length.
Strings(alphabet, n) == UNION {[1..k -> alphabet] : k \in 0..n}

\* Characters names are submitted with: letters, the two other characters of
\* the class, a digit, a hyphen and a line break.
NameAlphabet == {"a", "Z", "'", " ", "7", "-", "\n"}

\* clean_first_name and clean_last_name: the field's data goes through
\* _clean_names, which returns it as it is or raises.
CleanName(field, data) ==
    /\ last' = [op |-> "_clean_names", field |-> field, data |-> data,
                outcome |-> IF clean_names_raises(data)
                            THEN "Please use only Latin characters."
                            ELSE "returned",
                value |-> data]
    /\ UNCHANGED <<users, changed, profiles, featured, today>>

\* str.strip(chars): leading and trailing characters of chars are removed.
RECURSIVE LStrip(_, _)
LStrip(s, chars) ==
    IF s # <<>> /\ Head(s) \in chars THEN LStrip(Tail(s), chars) ELSE s

RECURSIVE RStrip(_, _)
RStrip(s, chars) ==
    IF s # <<>> /\ s[Len(s)] \in chars
    THEN RStrip(SubSeq(s, 1, Len(s) - 1), chars) ELSE s

Strip(s, chars) == RStrip(LStrip(s, chars), chars)

\* Characters twitter handles are submitted with.
HandleAlphabet == {"@", "r", "_", "9"}

\* clean_twitter_account that strips the start of the handle only.
clean_twitter_account_lstrip(twitter_account) == LStrip(twitter_account, {"@"})

\* ChangeProfileForm.clean_twitter_account
clean_twitter_account(twitter_account) == Strip(twitter_account, {"@"})

CleanTwitter(data) ==
    /\ last' = [op |-> "clean_twitter_account", data |-> data,
                value |-> clean_twitter_account(data)]
    /\ UNCHANGED <<users, changed, profiles, featured, today>>

InitFields ==
    /\ users = <<>>
    /\ changed = {}
    /\ profiles = <<>>
    /\ featured = <<>>
    /\ today = 0
    /\ last = [op |-> "init"]

NextFields ==
    \/ \E field \in {"first_name", "last_name"},
          data \in Strings(NameAlphabet, MaxNameLen) : CleanName(field, data)
    \/ \E data \in Strings(HandleAlphabet, MaxHandleLen) : CleanTwitter(data)

SpecFields == InitFields /\ [][NextFields]_vars

\* C7: a name is accepted, and returned unchanged, if and only if it is a
\* non-empty string of ASCII letters, apostrophes and spaces; every other
\* string, also one holding a digit, another symbol or a line break, fails
\* with 'Please use only Latin characters.'
C7_NamesLatinOnly ==
    last.op = "_clean_names" =>
        LET latin == /\ last.data # <<>>
                     /\ \A i \in 1..Len(last.data) : last.data[i] \in NameClass
        IN /\ latin => last.outcome = "returned" /\ last.value = last.data
           /\ ~latin => last.outcome = "Please use only Latin characters."

\* C9: clean_twitter_account removes a leading '@' and nothing else: the
\* result is the handle without its first character when that is '@', and
\* the handle itself otherwise; an '@' at the end is kept.
C9_TwitterLeadingAt ==
    last.op = "clean_twitter_account" =>
        last.value = IF last.data # <<>> /\ Head(last.data) = "@"
                     THEN Tail(last.data) ELSE last.data

\* C9 as amended: clean_twitter_account removes every '@' at the start and
\* at the end of the handle and nothing else: the result is the part of the
\* handle between them, it neither starts nor ends with '@', and the
\* characters in between, an '@' among them, are kept.
C9_TwitterBothEnds ==
    last.op = "clean_twitter_account" =>
        \E i \in 1..(Len(last.data) + 1), j \in 0..Len(last.data) :
            /\ last.value = SubSeq(last.data, i, j)
            /\ \A k \in 1..Len(last.data) :
                   (k < i \/ k > j) => last.data[k] = "@"
            /\ last.value # <<>> =>
                   /\ last.value[1] # "@"
                   /\ last.value[Len(last.value)] # "@"

C9_Witness ==
    /\ last.op = "clean_twitter_account"
    /\ Len(last.data) = 3
    /\ last.data[1] = "@"
    /\ last.data[3] = "@"
    /\ last.value = <<last.data[2]>>
    /\ last.data[2] # "@"

----------------------------------------------------------------------------
(* ChangeProfileForm.clean_mentor and ChangeDatesForm.save *)

\* now().date() moves on.
Tick ==
    /\ today < MaxDay
    /\ today' = today + 1
    /\ UNCHANGED <<users, changed, profiles, featured, last>>

\* The pks offered by the mentor field: ChangeProfileForm.__init__ takes the
\* users of group 'Mentor' whose registration is complete.
MentorChoices ==
    {u \in DOMAIN users : /\ "Mentor" \in users[u].groups
                           /\ profiles[u].registration_complete}

\* What request.POST holds under 'alumni_group': nothing, an empty string or
\* the value of a ticked box.
AlumniGroupPost == {"absent", "", "on"}

\* ChangeProfileForm.clean_mentor on a value the choice field let through:
\* None stands for the choice u'None'.
clean_mentor(alumni_group, value) ==
    IF alumni_group \notin {"absent", ""}
    THEN [outcome |-> "returned", mentor |-> None]
    ELSE IF value = None
    THEN [outcome |-> "Please select a mentor.", mentor |-> None]
    ELSE [outcome |-> "returned", mentor |-> value]

\* The mentor field of a ChangeProfileForm bound to subject's profile: the
\* choice field rejects a value that is not among its choices, and
\* clean_mentor runs on the others.
CleanMentor(subject, alumni_group, value) ==
    /\ subject \in DOMAIN users
    /\ last' = [op |-> "clean_mentor", subject |-> subject,
                alumni_group |-> alumni_group, value |-> value,
                result |-> IF value \in {None} \cup MentorChoices
                           THEN clean_mentor(alumni_group, value)
                           ELSE [outcome |-> "invalid_choice", mentor |-> None]]
    /\ UNCHANGED <<users, changed, profiles, featured, today>>

\* ChangeDatesForm.save on the instance the form constructed: date_left is
\* the instance's date_left_program, in_changed_data tells whether
\* 'date_left_program' is in changed_data.
ChangeDatesForm_save(alumni, in_changed_data, date_left, now) ==
    IF alumni
    THEN IF ~in_changed_data THEN now ELSE date_left
    ELSE None

\* A ChangeDatesForm submission for u's profile: the submitted left-date is
\* written to the instance, changed_data compares it with the stored one,
\* and save stores the outcome.
ChangeDates(u, left) ==
    LET previous == profiles[u].date_left_program
        stored == ChangeDatesForm_save("Alumni" \in users[u].groups,
                                       left # previous, left, today)
    IN
    /\ u \in DOMAIN users
    /\ profiles' = [profiles EXCEPT ![u].date_left_program = stored]
    /\ last' = [op |-> "change_dates", user |-> u, submitted |-> left,
                previous |-> previous, today |-> today]
    /\ UNCHANGED <<users, changed, featured, today>>

\* The groups a user of this part of the model is in.
ProfileGroups == {{"Rep"}, {"Rep", "Mentor"}, {"Alumni"}}

InitProfile ==
    /\ users \in [UserIds -> [groups : ProfileGroups]]
    /\ profiles \in [UserIds -> [registration_complete : BOOLEAN,
                                  date_left_program : {None} \cup Days]]
    /\ changed = {}
    /\ featured = <<>>
    /\ today \in Days
    /\ last = [op |-> "init"]

NextProfile ==
    \/ Tick
    \/ \E subject \in UserIds, alumni_group \in AlumniGroupPost,
          value \in {None} \cup UserIds :
          CleanMentor(subject, alumni_group, value)
    \/ \E u \in UserIds, left \in {None} \cup Days : ChangeDates(u, left)

SpecProfile == InitProfile /\ [][NextProfile]_vars

\* C5: for a subject who is not in 'Alumni', the 'none' mentor choice always
\* fails with 'Please select a mentor.' and a submitted mentor id is returned
\* as that user; for a subject who is in 'Alumni', validation never fails on
\* mentor and the mentor is forced to empty.
C5_MentorByAlumniMembership ==
    (last.op = "clean_mentor" /\ last.result.outcome # "invalid_choice") =>
        IF "Alumni" \in users[last.subject].groups
        THEN last.result = [outcome |-> "returned", mentor |-> None]
        ELSE IF last.value = None
        THEN last.result.outcome = "Please select a mentor."
        ELSE last.result = [outcome |-> "returned", mentor |-> last.value]

\* C6: after save, date_left_program is empty when the owning user is not in
\* 'Alumni'; when the user is in 'Alumni' it is today if the submission did
\* not change the left-date field and the submitted left-date if it did, so
\* that a date the caller provided is never replaced by today.
C6_LeftDateRule ==
    last.op = "change_dates" =>
        LET date_left == profiles[last.user].date_left_program IN
        IF "Alumni" \notin users[last.user].groups
        THEN date_left = None
        ELSE /\ last.submitted = last.previous => date_left = last.today
             /\ last.submitted # last.previous => date_left = last.submitted
             /\ last.submitted # None => date_left = last.submitted

----------------------------------------------------------------------------
(* UserStatusForm.clean *)

\* Max period that a user can be unavailable in weeks
MAX_UNAVAILABILITY_PERIOD == 12

\* remo.base.utils.get_date: the date days and weeks after now().date().
get_date(now, days, weeks) == now + days + 7 * weeks

\* The days an expected_date is submitted with: from the first day of the
\* calendar to past the longest period after its last day.
StatusDays == 1..(get_date(MaxDay, 0, MAX_UNAVAILABILITY_PERIOD) + 1)

\* What super().clean() hands over: a field is a key of cleaned_data only
\* when its own validation passed; is_replaced is not required and always
\* passes.
CleanedData ==
    {date @@ rep @@ [is_replaced |-> b] :
        date \in {<<>>} \cup {[expected_date |-> d] : d \in StatusDays},
        rep \in {<<>>} \cup {[replacement_rep |-> r] : r \in {None} \cup UserIds},
        b \in BOOLEAN}

\* The errors the fields left before clean() runs.
FieldErrors(cdata) ==
    [f \in {"expected_date", "replacement_rep"} \ DOMAIN cdata |-> "invalid"]

\* The date check with the day after tomorrow as the first day allowed.
expected_date_errors_off_by_one(cdata, errors, now) ==
    LET tomorrow == get_date(now, 1, 0)
        max_period == get_date(now, 0, MAX_UNAVAILABILITY_PERIOD)
    IN IF "expected_date" \in DOMAIN cdata
       THEN LET early == IF cdata.expected_date <= tomorrow
                         THEN ("expected_date" :> "cannot be earlier") @@ errors
                         ELSE errors
            IN IF cdata.expected_date > max_period
               THEN ("expected_date" :> "maximum period") @@ early
               ELSE early
       ELSE errors

\* The date check of UserStatusForm.clean: the second test is made after the
\* first and its message replaces the first one's.
expected_date_errors(cdata, errors, now) ==
    LET tomorrow == get_date(now, 1, 0)
        max_period == get_date(now, 0, MAX_UNAVAILABILITY_PERIOD)
    IN IF "expected_date" \in DOMAIN cdata
       THEN LET early == IF cdata.expected_date < tomorrow
                         THEN ("expected_date" :> "cannot be earlier") @@ errors
                         ELSE errors
            IN IF cdata.expected_date > max_period
               THEN ("expected_date" :> "maximum period") @@ early
               ELSE early
       ELSE errors

\* UserStatusForm.clean: the errors it leaves, and the exception that ends it
\* when the lookup of a missing key does.
UserStatusForm_clean(instance_id, cdata, errors, now) ==
    IF instance_id # None
    THEN [raised |-> "", errors |-> errors]
    ELSE
    LET dated == expected_date_errors(cdata, errors, now)
    IN IF "is_replaced" \in DOMAIN cdata /\ cdata.is_replaced
       THEN IF "replacement_rep" \notin DOMAIN cdata
            THEN [raised |-> "KeyError", errors |-> dated]
            ELSE IF cdata.replacement_rep = None
            THEN [raised |-> "",
                  errors |-> ("replacement_rep" :> "select a replacement") @@ dated]
            ELSE [raised |-> "", errors |-> dated]
       ELSE [raised |-> "", errors |-> dated]

\* Validation of a UserStatusForm bound to a status record with pk
\* instance_id (None: not saved yet).
StatusClean(instance_id, cdata) ==
    /\ last' = [op |-> "status_clean", instance_id |-> instance_id,
                cdata |-> cdata, today |-> today,
                result |-> UserStatusForm_clean(instance_id, cdata,
                                                FieldErrors(cdata), today)]
    /\ UNCHANGED <<users, changed, profiles, featured, today>>

InitStatus ==
    /\ users = <<>>
    /\ changed = {}
    /\ profiles = <<>>
    /\ featured = <<>>
    /\ today \in Days
    /\ last = [op |-> "init"]

NextStatus ==
    \/ Tick
    \/ \E instance_id \in {None} \cup UserIds, cdata \in CleanedData :
          StatusClean(instance_id, cdata)

SpecStatus == InitStatus /\ [][NextStatus]_vars

\* C1: for a status record that does not exist yet, a submitted expected_date
\* d gets no 'expected_date' error if and only if tomorrow <= d <= today + 12
\* weeks (today is rejected, today + 12 weeks is accepted); for a record that
\* exists, no expected_date error is produced whatever d is.
C1_ExpectedDateWindow ==
    (last.op = "status_clean" /\ "expected_date" \in DOMAIN last.cdata) =>
        LET d == last.cdata.expected_date
            accepted == "expected_date" \notin DOMAIN last.result.errors
        IN IF last.instance_id = None
           THEN accepted <=> (last.today + 1 <= d /\ d <= last.today + 84)
           ELSE accepted

C1_Witness ==
    /\ last.op = "status_clean"
    /\ last.instance_id = None
    /\ "expected_date" \in DOMAIN last.cdata
    /\ last.cdata.expected_date = last.today + 84
    /\ "expected_date" \notin DOMAIN last.result.errors

\* C2: for every submission, of a new status record or of an existing one,
\* is_replaced true with no replacement_rep given fails with an error on
\* replacement_rep; no accepted submission has is_replaced true and an empty
\* replacement.
C2_ReplacementMandatory ==
    (/\ last.op = "status_clean"
     /\ last.cdata.is_replaced
     /\ "replacement_rep" \in DOMAIN last.cdata
     /\ last.cdata.replacement_rep = None)
    => "replacement_rep" \in DOMAIN last.result.errors

----------------------------------------------------------------------------
(* The edit view of featured articles *)

ArticleIds == 1..NumArticles

\* The article bodies of the model: the one the articles start with and the
\* ones a form is posted with.
PostedTexts == {"text a", "text b"}

\* The permission layer with 'Council' left out.
can_edit_featured_admin_only(user) == "Admin" \in users[user].groups

\* The permission layer lets the groups 'Admin' and 'Council' edit.
can_edit_featured(user) == users[user].groups \cap {"Admin", "Council"} # {}

\* GET on the edit endpoint of an article.
EditGet(user, article) ==
    /\ last' = [op |-> "edit_get", user |-> user, article |-> article,
                response |-> IF can_edit_featured(user)
                             THEN "featuredrep_alter.html"
                             ELSE "Permission denied."]
    /\ UNCHANGED <<users, changed, profiles, featured, today>>

\* POST on the edit endpoint of an article, with a form that is valid or not.
EditPost(user, article, form_valid, text) ==
    /\ IF can_edit_featured(user) /\ form_valid
       THEN featured' = [featured EXCEPT ![article] = text]
       ELSE featured' = featured
    /\ last' = [op |-> "edit_post", user |-> user, article |-> article,
                form_valid |-> form_valid, text |-> text,
                response |-> IF ~can_edit_featured(user)
                             THEN "Permission denied."
                             ELSE IF form_valid
                             THEN "Featured rep article successfuly edited."
                             ELSE "featuredrep_alter.html"]
    /\ UNCHANGED <<users, changed, profiles, today>>

InitFeatured ==
    /\ users \in [UserIds -> [groups : {{"Rep"}, {"Admin"}, {"Council"},
                                        {"Rep", "Mentor"}}]]
    /\ changed = {}
    /\ profiles = <<>>
    /\ featured = [a \in ArticleIds |-> "text"]
    /\ today = 0
    /\ last = [op |-> "init"]

NextFeatured ==
    \/ \E user \in UserIds, article \in ArticleIds : EditGet(user, article)
    \/ \E user \in UserIds, article \in ArticleIds, form_valid \in BOOLEAN,
          text \in PostedTexts : EditPost(user, article, form_valid, text)

SpecFeatured == InitFeatured /\ [][NextFeatured]_vars

\* C8: for a user in neither 'Admin' nor 'Council', GET and POST on the edit
\* endpoint of any article are rejected by the permission layer and the
\* article is left unchanged; for a user in 'Admin' or 'Council', GET renders
\* the edit template and a POST with a valid form saves the article and
\* emits 'Featured rep article successfuly edited.'
C8_EditGatedByGroup ==
    [][last'.op \in {"edit_get", "edit_post"} =>
         LET groups == users[last'.user].groups IN
         IF "Admin" \notin groups /\ "Council" \notin groups
         THEN last'.response = "Permission denied." /\ featured' = featured
         ELSE IF last'.op = "edit_get"
         THEN last'.response = "featuredrep_alter.html" /\ featured' = featured
         ELSE last'.form_valid =>
                /\ featured'[last'.article] = last'.text
                /\ last'.response = "Featured rep article successfuly edited."
        ]_vars

C8_Witness ==
    /\ last.op = "edit_post"
    /\ "Council" \in users[last.user].groups
    /\ last.form_valid
    /\ featured[last.article] = last.text
    /\ \E other \in ArticleIds : featured[other] = "text"

----------------------------------------------------------------------------
(* InviteUserForm and ChangeUserForm on the user store *)

\* default_username_algo of django_browserid: a digest of the email.
USERNAME_ALGO(email) == <<"sha1", email>>

\* User.objects.filter(email=data)
FilterEmail(store, data) == {u \in DOMAIN store : store[u].email = data}

Delete(store, u) == [v \in DOMAIN store \ {u} |-> store[v]]

\* The names ChangeUserForm is submitted with in this model.
NameSamples == {<<"B", "o">>, <<"B", "0">>}

\* _validate_unique_email that accepts a Mozillians email without deleting
\* the row that holds it.
InviteUser_keeps_row(data) ==
    LET match == FilterEmail(users, data) IN
    /\ users' = users
    /\ changed' = changed
    /\ last' = [op |-> "invite", email |-> data,
                outcome |-> IF \A u \in match : "Mozillians" \in users[u].groups
                            THEN "accepted" ELSE "User already exists."]
    /\ UNCHANGED <<profiles, featured, today>>

\* InviteUserForm._validate_unique_email.  user[0] is evaluated twice on a
\* queryset without ordering: each evaluation may return any matching row.
InviteUser(data) ==
    LET match == FilterEmail(users, data) IN
    /\ IF match = {}
       THEN /\ users' = users
            /\ changed' = changed
            /\ last' = [op |-> "invite", email |-> data, outcome |-> "accepted"]
       ELSE \E first \in match :
              IF "Mozillians" \in users[first].groups
              THEN \E gone \in match :
                     /\ users' = Delete(users, gone)
                     /\ changed' = changed \ {gone}
                     /\ last' = [op |-> "invite", email |-> data,
                                 outcome |-> "accepted"]
              ELSE /\ users' = users
                   /\ changed' = changed
                   /\ last' = [op |-> "invite", email |-> data,
                               outcome |-> "User already exists."]
    /\ UNCHANGED <<profiles, featured, today>>

\* clean_email with the submitted email excluded instead of the instance's.
clean_email_excludes_submitted(store, instance, email) ==
    \E u \in FilterEmail(store, email) : store[u].email # email

\* ChangeUserForm.clean_email: TRUE when ValidationError is raised.
clean_email_raises(store, instance, email) ==
    \E u \in FilterEmail(store, email) : store[u].email # instance.email

\* save without the username refresh.
ChangeUserForm_save_stale(instance) == instance

\* ChangeUserForm.save: the username is derived from the instance's email.
ChangeUserForm_save(instance) ==
    [instance EXCEPT !.username = USERNAME_ALGO(instance.email)]

\* A ChangeUserForm submission for user u: the three fields are cleaned, the
\* valid ones are written to the instance, and the form is saved when no
\* field failed.
ChangeUser(u, first_name, last_name, email) ==
    LET instance == users[u]
        errors == {f \in {"first_name", "last_name", "email"} :
                     \/ f = "first_name" /\ clean_names_raises(first_name)
                     \/ f = "last_name" /\ clean_names_raises(last_name)
                     \/ f = "email" /\ clean_email_raises(users, instance, email)}
        constructed == [instance EXCEPT !.first_name = first_name,
                                        !.last_name = last_name,
                                        !.email = email]
    IN
    /\ u \in DOMAIN users
    /\ IF errors = {}
       THEN /\ users' = [users EXCEPT ![u] = ChangeUserForm_save(constructed)]
            /\ changed' = changed \cup {u}
       ELSE /\ users' = users
            /\ changed' = changed
    /\ last' = [op |-> "change_user", user |-> u, email |-> email,
                errors |-> errors]
    /\ UNCHANGED <<profiles, featured, today>>

Init ==
    /\ \E mail \in [UserIds -> Emails] :
       \E moz \in SUBSET UserIds :
          /\ \A u, v \in UserIds : u # v => mail[u] # mail[v]
          /\ users = [u \in UserIds |->
                        [email |-> mail[u],
                         username |-> <<"legacy", u>>,
                         first_name |-> <<"A", "l">>,
                         last_name |-> <<"A", "l">>,
                         groups |-> IF u \in moz THEN {"Mozillians"}
                                                 ELSE {"Rep"}]]
    /\ changed = {}
    /\ profiles = <<>>
    /\ featured = <<>>
    /\ today = 0
    /\ last = [op |-> "init"]

Next ==
    \/ \E data \in Emails : InviteUser(data)
    \/ \E u \in UserIds, fn \in NameSamples, ln \in NameSamples, e \in Emails :
          ChangeUser(u, fn, ln, e)

Spec == Init /\ [][Next]_vars

----------------------------------------------------------------------------
(* Claims on the user store, checked under Spec *)

EmailsUnique ==
    \A u, v \in DOMAIN users : u # v => users[u].email # users[v].email

\* C3: from a store without shared emails, after any sequence of
\* ChangeUserForm submissions no two distinct users share an email, and a
\* submission whose email another user holds is rejected on the email field
\* and leaves the store unchanged.
C3_EmailUniquenessPreserved ==
    /\ []EmailsUnique
    /\ [][(/\ last'.op = "change_user"
           /\ \E v \in DOMAIN users \ {last'.user} :
                  users[v].email = last'.email)
          => "email" \in last'.errors /\ users' = users]_vars

C3_Witness ==
    /\ last.op = "change_user"
    /\ "email" \in last.errors
    /\ \E v \in DOMAIN users \ {last.user} : users[v].email = last.email

\* C4: _validate_unique_email on e has three outcomes.  No user holds e: e is
\* accepted and the store is unchanged.  A user holding e is in 'Mozillians':
\* that user is deleted, e is accepted and no user holds e afterwards.
\* Otherwise it fails with 'User already exists.' and the store is unchanged.
C4_InviteOutcomes ==
    [][last'.op = "invite" =>
         LET e == last'.email
             match == FilterEmail(users, e)
             moz == {u \in match : "Mozillians" \in users[u].groups}
         IN IF match = {}
            THEN last'.outcome = "accepted" /\ users' = users
            ELSE IF moz # {}
            THEN /\ last'.outcome = "accepted"
                 /\ \E u \in moz : users' = Delete(users, u)
                 /\ FilterEmail(users', e) = {}
            ELSE /\ last'.outcome = "User already exists."
                 /\ users' = users]_vars

C4_Witness ==
    /\ last.op = "invite"
    /\ last.outcome = "accepted"
    /\ Cardinality(DOMAIN users) < NumUsers
    /\ FilterEmail(users, last.email) = {}

\* C10: after a ChangeUserForm submission that passed validation and was
\* saved, the stored email is the submitted one and the stored username is
\* USERNAME_ALGO of it; so username = USERNAME_ALGO(email) holds for every
\* user changed through the form.
C10_UsernameFollowsEmail ==
    /\ \A u \in changed \cap DOMAIN users :
           users[u].username = USERNAME_ALGO(users[u].email)
    /\ (last.op = "change_user" /\ last.errors = {} /\ last.user \in DOMAIN users)
         => /\ users[last.user].email = last.email
            /\ users[last.user].username = USERNAME_ALGO(last.email)

C10_Witness ==
    /\ last.op = "change_user"
    /\ last.errors = {}
    /\ users[last.user].email = last.email
    /\ \E u \in changed : u # last.user

====
